---- MODULE Spec2Model ----
(***************************************************************************)
(* Model of euroska/healthcheck (src/main.rs): main loads the config,      *)
(* spawns one check task per configured address and joins them; each       *)
(* check task parses its URL and then loops probe -> classify -> gate ->   *)
(* send -> sleep.  A task step is one stretch of code between two awaits.  *)
(***************************************************************************)
EXTENDS Integers, Sequences, FiniteSets, TLC

(* ---------------- bounds of the model ---------------- *)
\* largest notify_failures a config file of the model holds
MaxNotifyFailures == 3
\* largest rereport a config file of the model holds
MaxRereport == 5
\* probes one task completes when it is the only task
MaxProbes == 7
\* probes one task completes when several tasks run
MaxProbesMulti == 2

(* ---------------- the outside world ---------------- *)
\* what client.get(uri).await can resolve to: 200 OK, another status, Err
Outcomes == {"ok", "status", "err"}
\* what bot.send_message(..).send().await can resolve to
SendResults == {"delivered", "failed"}
\* address strings a config file of the model may list
GoodUrl == "http://up.example/"
BadUrl == "not a url"

\* url.parse::<Uri>() : Ok for the well-formed address, Err for the other
ParseUriAlways(url) == TRUE
ParseUri(url) == url # BadUrl

(* ---------------- config files ---------------- *)
MissingFile == [kind |-> "missing"]
MalformedFile == [kind |-> "malformed"]
ConfigFile(f, r, a) ==
    [kind |-> "ok", notify_failures |-> f, rereport |-> r, addresses |-> a]

\* toml::from_str into struct Config: every u64 is accepted, 0 included
Config(file) ==
    [notify_failures |-> file.notify_failures,
     rereport |-> file.rereport,
     addresses |-> file.addresses]
NoConfig == [notify_failures |-> 0, rereport |-> 0, addresses |-> << >>]

OneAddress == {<<GoodUrl>>, <<BadUrl>>}
TwoAddresses == {<<GoodUrl, GoodUrl>>, <<GoodUrl, BadUrl>>,
                 <<BadUrl, GoodUrl>>, <<BadUrl, BadUrl>>}

VARIABLES
    file,       \* contents of the file HEALTHCHECK_CONFIG names
    mainPc,     \* position of main: "load", "run", "done", "failed", "panicked"
    config,     \* the Config main deserialised
    tasks,      \* the spawned check tasks (handles), in spawn order
    obs         \* per task: what an observer of the task has seen so far

vars == <<file, mainPc, config, tasks, obs>>

Tasks == 1..Len(tasks)

(* ---------------- check(): locals of a fresh task ---------------- *)
NewTask(u) ==
    [url |-> u, pc |-> "start",
     number_of_fail |-> 0, number_of_success |-> 0, fail_in_row |-> 0,
     message |-> "None"]

NewObs ==
    [hist |-> << >>,      \* probe outcomes, oldest first
     sent |-> << >>,      \* per completed probe: was a send issued
     slept |-> << >>,     \* per sleep: which interval
     sends |-> 0,         \* bot.send_message calls issued
     failedSends |-> 0,   \* of these, how many resolved to Err
     info |-> 0,          \* info! lines
     error |-> 0]         \* error! lines

\* the probe budget of the model
ProbeCap == IF Len(config.addresses) <= 1 THEN MaxProbes ELSE MaxProbesMulti

(* ---------------- check(): match on the probe result ---------------- *)
ClassifyNoReset(t, outcome) ==
    IF outcome = "ok"
    THEN [t EXCEPT !.number_of_success = @ + 1,
                   !.message = IF t.fail_in_row > 0 THEN "Recovered" ELSE "None"]
    ELSE [t EXCEPT !.number_of_fail = @ + 1, !.fail_in_row = @ + 1,
                   !.message = "Failure"]

ClassifyNoSuccessCount(t, outcome) ==
    IF outcome = "ok"
    THEN [t EXCEPT !.fail_in_row = 0,
                   !.message = IF t.fail_in_row > 0 THEN "Recovered" ELSE "None"]
    ELSE [t EXCEPT !.number_of_fail = @ + 1, !.fail_in_row = @ + 1,
                   !.message = "Failure"]

\* a transport error counted in number_of_fail but not in fail_in_row
ClassifyErrNoStreak(t, outcome) ==
    IF outcome = "ok"
    THEN [t EXCEPT !.number_of_success = @ + 1,
                   !.fail_in_row = 0,
                   !.message = IF t.fail_in_row > 0 THEN "Recovered" ELSE "None"]
    ELSE [t EXCEPT !.number_of_fail = @ + 1,
                   !.fail_in_row = IF outcome = "err" THEN @ ELSE @ + 1,
                   !.message = "Failure"]

\* a failure that also clears number_of_success
ClassifyFailClearsSuccess(t, outcome) ==
    IF outcome = "ok"
    THEN [t EXCEPT !.number_of_success = @ + 1,
                   !.fail_in_row = 0,
                   !.message = IF t.fail_in_row > 0 THEN "Recovered" ELSE "None"]
    ELSE [t EXCEPT !.number_of_fail = @ + 1, !.fail_in_row = @ + 1,
                   !.number_of_success = 0,
                   !.message = "Failure"]

\* fail_in_row kept in one counter all tasks share
ClassifyShared(t, outcome) ==
    LET shared == CHOOSE m \in {tasks[o].fail_in_row : o \in DOMAIN tasks} :
                      \A o \in DOMAIN tasks : tasks[o].fail_in_row <= m
    IN  IF outcome = "ok"
        THEN [t EXCEPT !.number_of_success = @ + 1,
                       !.fail_in_row = 0,
                       !.message = IF t.fail_in_row > 0 THEN "Recovered" ELSE "None"]
        ELSE [t EXCEPT !.number_of_fail = @ + 1, !.fail_in_row = shared + 1,
                       !.message = "Failure"]

Classify(t, outcome) ==
    IF outcome = "ok"
    THEN [t EXCEPT !.number_of_success = @ + 1,
                   !.fail_in_row = 0,
                   !.message = IF t.fail_in_row > 0 THEN "Recovered" ELSE "None"]
    ELSE [t EXCEPT !.number_of_fail = @ + 1, !.fail_in_row = @ + 1,
                   !.message = "Failure"]

(* ---------------- check(): the notification gate ---------------- *)
\* fail_in_row % config.rereport is evaluated only when the left operand of
\* || is false; with rereport = 0 it panics
GatePanicsAlways(cfg, fir) == cfg.rereport = 0
GatePanics(cfg, fir) == fir # cfg.notify_failures /\ cfg.rereport = 0

GateThresholdOnly(cfg, fir) == fir = cfg.notify_failures
GateFromThreshold(cfg, fir) ==
    fir >= cfg.notify_failures /\ (fir - cfg.notify_failures) % cfg.rereport = 0
\* recoveries throttled like failures: nothing is sent at fail_in_row = 0
GateNonZero(cfg, fir) ==
    fir > 0 /\ (fir = cfg.notify_failures \/ fir % cfg.rereport = 0)
Gate(cfg, fir) ==
    fir = cfg.notify_failures \/ fir % cfg.rereport = 0

(* ---------------- check(): which sleep ends the iteration ------------ *)
SleepForAlwaysFail(message) == "check_interval_fail"
SleepFor(message) ==
    IF message = "None" THEN "check_interval_success" ELSE "check_interval_fail"

(* ---------------- check(): after the send resolved ---------------- *)
AfterSendPropagate(result) == IF result = "failed" THEN "done" ELSE "sleep"
AfterSendSkipSleep(result) == "probe"
AfterSendRetry(result) == IF result = "failed" THEN "send" ELSE "sleep"
AfterSend(result) == "sleep"

(* ---------------- main ---------------- *)
\* lines 30-32 and 54-55: read and deserialise the config file
LoadConfig ==
    /\ mainPc = "load"
    /\ IF file.kind = "missing"
       THEN mainPc' = "failed" /\ config' = config
       ELSE IF file.kind = "malformed"
       THEN mainPc' = "panicked" /\ config' = config
       ELSE mainPc' = "run" /\ config' = Config(file)
    /\ UNCHANGED <<file, tasks, obs>>

\* lines 57-71: one tokio::spawn per address, in list order
Spawn ==
    /\ mainPc = "run"
    /\ Len(tasks) < Len(config.addresses)
    /\ tasks' = Append(tasks, NewTask(config.addresses[Len(tasks) + 1]))
    /\ obs' = Append(obs, NewObs)
    /\ UNCHANGED <<file, mainPc, config>>

Ended(t) == t.pc \in {"done", "panicked"}

\* main returning as soon as one handle has resolved
JoinAny ==
    /\ mainPc = "run"
    /\ Len(tasks) = Len(config.addresses)
    /\ \E e \in Tasks : Ended(tasks[e])
    /\ mainPc' = "done"
    /\ UNCHANGED <<file, config, tasks, obs>>

\* lines 72-73: join_all resolves once every handle has resolved
JoinAll ==
    /\ mainPc = "run"
    /\ Len(tasks) = Len(config.addresses)
    /\ \A e \in Tasks : Ended(tasks[e])
    /\ mainPc' = "done"
    /\ UNCHANGED <<file, config, tasks, obs>>

(* ---------------- check ---------------- *)
\* lines 82-87 and 142-147: parse the address, enter the loop or give up
Parse(e) ==
    /\ tasks[e].pc = "start"
    /\ IF ParseUri(tasks[e].url)
       THEN /\ tasks' = [tasks EXCEPT ![e].pc = "probe"]
            /\ obs' = obs
       ELSE /\ tasks' = [tasks EXCEPT ![e].pc = "done"]
            /\ obs' = [obs EXCEPT ![e].error = @ + 1]
    /\ UNCHANGED <<file, mainPc, config>>

\* lines 90-131 and 139: the probe resolved; classify, decide, and run up to
\* the next await (the send, or the sleep when nothing is sent)
ProbeDone(e, outcome) ==
    /\ tasks[e].pc = "probe"
    /\ Len(obs[e].hist) < ProbeCap
    /\ LET t == Classify(tasks[e], outcome)
           plain == t.message = "None"
           panics == ~plain /\ GatePanics(config, t.fail_in_row)
           sending == ~plain /\ ~panics /\ Gate(config, t.fail_in_row)
           o == [obs[e] EXCEPT !.hist = Append(@, outcome),
                               !.sent = Append(@, sending)]
       IN  IF plain
           THEN /\ tasks' = [tasks EXCEPT ![e] = [t EXCEPT !.pc = "sleep"]]
                /\ obs' = [obs EXCEPT ![e] =
                              [o EXCEPT !.info = @ + 1,
                                        !.slept = Append(@, SleepFor(t.message))]]
           ELSE IF panics
           THEN /\ tasks' = [tasks EXCEPT ![e] = [t EXCEPT !.pc = "panicked"]]
                /\ obs' = [obs EXCEPT ![e] = o]
           ELSE IF sending
           THEN /\ tasks' = [tasks EXCEPT ![e] = [t EXCEPT !.pc = "send"]]
                /\ obs' = [obs EXCEPT ![e] =
                              [o EXCEPT !.info = @ + 1, !.sends = @ + 1]]
           ELSE /\ tasks' = [tasks EXCEPT ![e] = [t EXCEPT !.pc = "sleep"]]
                /\ obs' = [obs EXCEPT ![e] =
                              [o EXCEPT !.slept = Append(@, SleepFor(t.message))]]
    /\ UNCHANGED <<file, mainPc, config>>

\* lines 132-137: error! lines the match on the send result writes
SendErrorLinesNone(result) == 0
SendErrorLines(result) == IF result = "failed" THEN 1 ELSE 0

\* lines 132-139: the send resolved; log a failure, then sleep
SendDone(e, result) ==
    /\ tasks[e].pc = "send"
    /\ tasks' = [tasks EXCEPT ![e].pc = AfterSend(result)]
    /\ obs' = [obs EXCEPT ![e] =
                  [@ EXCEPT !.failedSends = IF result = "failed" THEN @ + 1 ELSE @,
                            !.error = @ + SendErrorLines(result),
                            !.slept = IF AfterSend(result) = "sleep"
                                      THEN Append(@, SleepFor(tasks[e].message))
                                      ELSE @]]
    /\ UNCHANGED <<file, mainPc, config>>

\* lines 87-90: the sleep elapsed; next iteration, message = None, probe issued
SleepDone(e) ==
    /\ tasks[e].pc = "sleep"
    /\ tasks' = [tasks EXCEPT ![e].pc = "probe", ![e].message = "None"]
    /\ UNCHANGED <<file, mainPc, config, obs>>

TaskStep ==
    \E e \in Tasks :
        \/ Parse(e)
        \/ \E outcome \in Outcomes : ProbeDone(e, outcome)
        \/ \E result \in SendResults : SendDone(e, result)
        \/ SleepDone(e)

Next == LoadConfig \/ Spawn \/ JoinAll \/ TaskStep

InitWith(files) ==
    /\ file \in files
    /\ mainPc = "load"
    /\ config = NoConfig
    /\ tasks = << >>
    /\ obs = << >>

\* config files the documentation allows: notify_failures >= 1, rereport >= 1
ValidFiles(addrs) ==
    {MissingFile, MalformedFile} \cup
    {ConfigFile(f, r, a) : f \in 1..MaxNotifyFailures, r \in 1..MaxRereport,
                           a \in addrs}

\* one endpoint, documented configs
Init == InitWith(ValidFiles(OneAddress))
Spec == Init /\ [][Next]_vars

\* several endpoints, documented configs
InitMulti == InitWith(ValidFiles(TwoAddresses))
SpecMulti == InitMulti /\ [][Next]_vars

\* every config file toml::from_str accepts, rereport = 0 included
AnyFiles(addrs) ==
    {MissingFile, MalformedFile} \cup
    {ConfigFile(f, r, a) : f \in 1..MaxNotifyFailures, r \in 0..MaxRereport,
                           a \in addrs}
InitAny == InitWith(AnyFiles(OneAddress))
SpecAny == InitAny /\ [][Next]_vars

\* several endpoints, rereport = 0
ZeroFiles(addrs) ==
    {MissingFile, MalformedFile} \cup
    {ConfigFile(f, 0, a) : f \in 1..MaxNotifyFailures, a \in addrs}
InitZero == InitWith(ZeroFiles(TwoAddresses))
SpecZero == InitZero /\ [][Next]_vars

\* the tokio runtime polls every ready task, and every probe, send and sleep
\* resolves: each step of each task that stays possible is eventually taken
TaskFairness(e) ==
    /\ WF_vars(Len(tasks) >= e /\ Parse(e))
    /\ WF_vars(Len(tasks) >= e /\ \E outcome \in Outcomes : ProbeDone(e, outcome))
    /\ WF_vars(Len(tasks) >= e /\ \E result \in SendResults : SendDone(e, result))
    /\ WF_vars(Len(tasks) >= e /\ SleepDone(e))
MainFairness == WF_vars(LoadConfig) /\ WF_vars(Spawn) /\ WF_vars(JoinAll)
\* two endpoints of which at most one parses, documented configs, fair
\* scheduling
FairAddresses == TwoAddresses \ {<<GoodUrl, GoodUrl>>}
InitFair == InitWith(ValidFiles(FairAddresses))
FairSpec ==
    InitFair /\ [][Next]_vars /\ MainFairness /\ \A e \in 1..2 : TaskFairness(e)

(* ---------------- vocabulary of the properties ---------------- *)
Last(s) == s[Len(s)]
Failing(outcome) == outcome # "ok"
\* the iteration of task e that completed its probe last
Probed(e) == Len(obs[e].hist) > 0
LastFailed(e) == Probed(e) /\ Failing(Last(obs[e].hist))
\* the last probe succeeded and the one before it failed
LastRecovered(e) ==
    /\ Len(obs[e].hist) >= 2
    /\ Last(obs[e].hist) = "ok"
    /\ Failing(obs[e].hist[Len(obs[e].hist) - 1])
\* the last probe succeeded and no failure came right before it
LastPlain(e) == Probed(e) /\ Last(obs[e].hist) = "ok" /\ ~LastRecovered(e)
RECURSIVE CountTrue(_)
CountTrue(s) ==
    IF s = << >> THEN 0
    ELSE (IF Head(s) THEN 1 ELSE 0) + CountTrue(Tail(s))

\* what one endpoint's own outcomes h say its state must be
RECURSIVE TrailingFailures(_)
TrailingFailures(h) ==
    IF h = << >> \/ ~Failing(Last(h)) THEN 0
    ELSE 1 + TrailingFailures(SubSeq(h, 1, Len(h) - 1))
CountFailing(h) == Cardinality({i \in DOMAIN h : Failing(h[i])})
CountOk(h) == Cardinality({i \in DOMAIN h : ~Failing(h[i])})
\* iteration i produced no message: a Success not right after a failure
PlainAt(h, i) == ~Failing(h[i]) /\ (i = 1 \/ ~Failing(h[i - 1]))
\* iteration i is the Success that ends a failure episode
RecoveryAt(h, i) == ~Failing(h[i]) /\ i > 1 /\ Failing(h[i - 1])
\* the send decision of iteration i for notify_failures f, rereport r >= 1
ExpectedSent(h, i, f, r) ==
    LET cf == TrailingFailures(SubSeq(h, 1, i))
    IN  IF Failing(h[i]) THEN cf = f \/ cf % r = 0 ELSE RecoveryAt(h, i)
ExpectedSleep(h, i) ==
    IF PlainAt(h, i) THEN "check_interval_success" ELSE "check_interval_fail"

(* ---------------- C1: the threshold property ---------------- *)
\* C1: with notify_failures = F >= 1 and rereport = R >= 1, on every failing
\* iteration (non-OK status or transport error) a send is issued if and only if
\* fail_in_row, after the increment, equals F or is a multiple of R.
C1_Threshold ==
    \A e \in Tasks :
        LastFailed(e) =>
            /\ Last(obs[e].sent) <=>
                  \/ tasks[e].fail_in_row = config.notify_failures
                  \/ tasks[e].fail_in_row % config.rereport = 0
            /\ obs[e].sends = CountTrue(obs[e].sent)

\* scenario A: F = 3, R = 5, seven failures, alerts at #3 and #5 only
C1_Witness ==
    \E e \in Tasks :
        /\ config.notify_failures = 3 /\ config.rereport = 5
        /\ Len(obs[e].hist) = 7
        /\ \A i \in 1..7 : Failing(obs[e].hist[i])
        /\ obs[e].sent = <<FALSE, FALSE, TRUE, FALSE, TRUE, FALSE, FALSE>>
        /\ obs[e].sends = 2

(* ---------------- C2: the recovery property ---------------- *)
\* C2: the first Success after one or more failures issues exactly one send,
\* of the "Recovered" message, in that same iteration, whatever F >= 1 and
\* R >= 1 are, and leaves fail_in_row at 0; a Success that follows a Success
\* (or is the first probe) issues none.
C2_Recovery ==
    \A e \in Tasks :
        /\ LastRecovered(e) =>
              /\ Last(obs[e].sent)
              /\ tasks[e].fail_in_row = 0
              /\ tasks[e].pc \in {"send", "sleep"} => tasks[e].message = "Recovered"
              /\ obs[e].sends =
                    CountTrue(SubSeq(obs[e].sent, 1, Len(obs[e].sent) - 1)) + 1
        /\ LastPlain(e) =>
              /\ ~Last(obs[e].sent)
              /\ tasks[e].message = "None"
              /\ obs[e].sends =
                    CountTrue(SubSeq(obs[e].sent, 1, Len(obs[e].sent) - 1))

\* one failure below both F = 3 and R = 5, then a Success: the recovery is sent
C2_Witness ==
    \E e \in Tasks :
        /\ config.notify_failures = 3 /\ config.rereport = 5
        /\ obs[e].hist = <<"err", "ok">>
        /\ obs[e].sent = <<FALSE, TRUE>>
        /\ tasks[e].pc = "send"
        /\ tasks[e].message = "Recovered"

(* ---------------- C3: nothing below the threshold ---------------- *)
\* C3: in a failure episode no failure notification is sent on an iteration
\* where fail_in_row < notify_failures; the first alert is the one at
\* fail_in_row = notify_failures and re-alerts come only after it.
C3_NoAlertBelowThreshold ==
    \A e \in Tasks :
        (LastFailed(e) /\ Last(obs[e].sent)) =>
            tasks[e].fail_in_row >= config.notify_failures

(* ---------------- C4: fail_in_row = 0 iff healthy ---------------- *)
\* C4: between iterations fail_in_row is 0 exactly when the most recent probe
\* succeeded or no probe has completed yet; it is positive after every non-OK
\* status and every transport error.
C4_ZeroIffHealthy ==
    \A e \in Tasks :
        /\ (tasks[e].fail_in_row = 0) <=> (~Probed(e) \/ Last(obs[e].hist) = "ok")
        /\ tasks[e].fail_in_row >= 0

\* a Success right after failures: the count is back at 0
C4_Witness ==
    \E e \in Tasks :
        /\ Len(obs[e].hist) = 3
        /\ Failing(obs[e].hist[1]) /\ Failing(obs[e].hist[2])
        /\ obs[e].hist[3] = "ok"
        /\ tasks[e].fail_in_row = 0
        /\ tasks[e].number_of_fail = 2

(* ---------------- C5: the lifetime counters ---------------- *)
\* C5: number_of_fail + number_of_success is the number of completed probes;
\* a completed probe adds exactly 1 to exactly one of the two, and no other
\* step changes either.
C5_Counters ==
    /\ [](\A e \in Tasks :
            tasks[e].number_of_fail + tasks[e].number_of_success
                = Len(obs[e].hist))
    /\ [][\A e \in Tasks :
            IF Len(obs'[e].hist) = Len(obs[e].hist) + 1
            THEN \/ /\ tasks'[e].number_of_fail = tasks[e].number_of_fail + 1
                    /\ tasks'[e].number_of_success = tasks[e].number_of_success
                 \/ /\ tasks'[e].number_of_fail = tasks[e].number_of_fail
                    /\ tasks'[e].number_of_success = tasks[e].number_of_success + 1
            ELSE /\ tasks'[e].number_of_fail = tasks[e].number_of_fail
                 /\ tasks'[e].number_of_success = tasks[e].number_of_success]_vars

\* both counters have moved and a send and a sleep have happened since
C5_Witness ==
    \E e \in Tasks :
        /\ tasks[e].number_of_fail = 2
        /\ tasks[e].number_of_success = 2
        /\ Len(obs[e].hist) = 4
        /\ obs[e].sends >= 1
        /\ tasks[e].pc = "probe"

(* ---------------- C6: scenario D ---------------- *)
\* C6: with notify_failures = 2, two transport errors and then a Success make
\* exactly 2 sends over the three iterations, for every rereport >= 1.
C6_ScenarioD ==
    \A e \in Tasks :
        (config.notify_failures = 2 /\ obs[e].hist = <<"err", "err", "ok">>) =>
            obs[e].sends = 2

(* ---------------- C7: the sleep cadence ---------------- *)
\* C7: every iteration ends in one sleep; it is check_interval_success exactly
\* when the iteration produced no message (a Success with fail_in_row already
\* 0) and check_interval_fail in every other iteration: each failure, sent or
\* suppressed, and the recovery.
C7_SleepCadence ==
    \A e \in Tasks :
        /\ tasks[e].pc \in {"sleep", "probe"} => Len(obs[e].slept) = Len(obs[e].hist)
        /\ tasks[e].pc = "send" => Len(obs[e].slept) = Len(obs[e].hist) - 1
        /\ Probed(e) => tasks[e].pc \in {"sleep", "probe", "send"}
        /\ (Probed(e) /\ tasks[e].pc \in {"sleep", "probe"}) =>
              /\ LastPlain(e) => Last(obs[e].slept) = "check_interval_success"
              /\ ~LastPlain(e) => Last(obs[e].slept) = "check_interval_fail"

\* a suppressed failure, a recovery and a plain success, each with its sleep
C7_Witness ==
    \E e \in Tasks :
        /\ obs[e].hist = <<"status", "ok", "ok">>
        /\ obs[e].sent = <<FALSE, TRUE, FALSE>>
        /\ obs[e].slept = <<"check_interval_fail", "check_interval_fail",
                            "check_interval_success">>

(* ---------------- C8: delivery failures ---------------- *)
\* C8: a send that resolves to Err does not end the loop: the message is not
\* sent again, the three counters keep their values, the iteration sleeps
\* check_interval_fail, and the task is left exactly where a delivered send
\* leaves it, so the next probe follows.
C8_DeliveryFailure ==
    [][\A e \in Tasks :
          obs'[e].failedSends # obs[e].failedSends =>
              /\ tasks[e].pc = "send"
              /\ tasks'[e] = [tasks[e] EXCEPT !.pc = "sleep"]
              /\ obs'[e].sends = obs[e].sends
              /\ obs'[e].hist = obs[e].hist
              /\ obs'[e].slept = Append(obs[e].slept, "check_interval_fail")
              /\ obs'[e].failedSends = obs[e].failedSends + 1]_vars

\* the only send failed, and the task went on to complete another probe
C8_Witness ==
    \E e \in Tasks :
        /\ obs[e].sent = <<TRUE, FALSE>>
        /\ obs[e].sends = 1 /\ obs[e].failedSends = 1
        /\ tasks[e].number_of_fail = 2 /\ tasks[e].fail_in_row = 2
        /\ tasks[e].pc = "sleep"

(* ---------------- C9: the URL validation gate ---------------- *)
\* C9: a task whose address does not parse never probes, sends or sleeps; it
\* reports exactly one error line and ends, and its steps leave every other
\* task as it was; a task with a well-formed address never ends.
C9_UrlGate ==
    /\ [](\A e \in Tasks :
            /\ tasks[e].url = BadUrl =>
                  /\ tasks[e].pc \in {"start", "done"}
                  /\ obs[e].hist = << >> /\ obs[e].sends = 0
                  /\ obs[e].slept = << >> /\ obs[e].info = 0
                  /\ obs[e].error = (IF tasks[e].pc = "done" THEN 1 ELSE 0)
            /\ tasks[e].url = GoodUrl => ~Ended(tasks[e]))
    /\ [][\A e \in Tasks :
            (tasks[e].url = BadUrl /\ tasks'[e] # tasks[e]) =>
                \A o \in Tasks \ {e} : tasks'[o] = tasks[o] /\ obs'[o] = obs[o]]_vars

\* the bad endpoint has ended with its one error line; its sibling, spawned
\* after it, has since run two full iterations
C9_Witness ==
    /\ Len(tasks) = 2
    /\ tasks[1].url = BadUrl /\ tasks[1].pc = "done" /\ obs[1].error = 1
    /\ tasks[2].url = GoodUrl /\ Len(obs[2].hist) = 2 /\ Len(obs[2].slept) = 2
    /\ mainPc = "run"

(* ---------------- C10: rereport = 0 ---------------- *)
\* C10: a config file with rereport = 0 is refused at startup: no check task
\* issues a probe and no task hits the modulo by zero.
C10_ZeroRereportRefused ==
    (file.kind = "ok" /\ file.rereport = 0) =>
        \A e \in Tasks :
            /\ tasks[e].pc \notin {"probe", "send", "sleep", "panicked"}
            /\ obs[e].hist = << >>

(* ---------------- C11: the loop never ends ---------------- *)
\* C11: with a well-formed address and F >= 1, R >= 1 the task never ends, and
\* under fair scheduling every completed probe, whatever its outcome and the
\* outcome of its send, is followed by the next probe of the same endpoint.
C11_RunsForever ==
    \A e \in 1..2 :
        /\ []((Len(tasks) >= e /\ tasks[e].url = GoodUrl) => ~Ended(tasks[e]))
        /\ \A n \in 1..(MaxProbesMulti + 1) :
              (Len(tasks) >= e /\ Len(obs[e].hist) = n
                 /\ tasks[e].pc \in {"send", "sleep"})
              ~> (Len(tasks) >= e /\ tasks[e].pc = "probe"
                    /\ Len(obs[e].hist) = n)

\* a transport error whose alert could not be delivered, and the next probe
\* is in flight
C11_Witness ==
    \E e \in Tasks :
        /\ obs[e].hist = <<"err">>
        /\ obs[e].sends = 1 /\ obs[e].failedSends = 1
        /\ tasks[e].pc = "probe"

(* ---------------- C12: endpoint isolation ---------------- *)
\* C12: with several tasks running in parallel, the counters, the send
\* decisions and the sleeps of each endpoint are determined by that endpoint's
\* own probe outcomes and the config, and no step changes the state of more
\* than one endpoint.
C12_Isolation ==
    /\ [](\A e \in Tasks :
            LET h == obs[e].hist
            IN  /\ tasks[e].fail_in_row = TrailingFailures(h)
                /\ tasks[e].number_of_fail = CountFailing(h)
                /\ tasks[e].number_of_success = CountOk(h)
                /\ Len(obs[e].sent) = Len(h)
                /\ \A i \in DOMAIN h :
                      obs[e].sent[i] = ExpectedSent(h, i, config.notify_failures,
                                                    config.rereport)
                /\ \A i \in DOMAIN obs[e].slept :
                      obs[e].slept[i] = ExpectedSleep(h, i))
    /\ [][\A e \in Tasks :
            (tasks'[e] # tasks[e] \/ obs'[e] # obs[e]) =>
                \A o \in Tasks \ {e} : tasks'[o] = tasks[o] /\ obs'[o] = obs[o]]_vars

\* two endpoints side by side: one two failures deep, the other healthy
C12_Witness ==
    /\ Len(tasks) = 2
    /\ obs[1].hist = <<"err", "status">> /\ tasks[1].fail_in_row = 2
    /\ obs[2].hist = <<"ok", "ok">> /\ tasks[2].fail_in_row = 0
    /\ tasks[2].number_of_fail = 0 /\ tasks[1].number_of_success = 0

(* ---------------- C13: the supervisor ---------------- *)
\* C13: main spawns exactly one task per configured address, in list order,
\* without waiting for a spawned task before spawning the next, and returns
\* only after every task has ended: with a well-formed address in the list it
\* never returns, with none it eventually returns.
C13_Supervisor ==
    /\ [](/\ Len(tasks) <= Len(config.addresses)
          /\ \A e \in Tasks : tasks[e].url = config.addresses[e]
          /\ (mainPc = "run" /\ Len(tasks) < Len(config.addresses))
                => ENABLED Spawn
          /\ mainPc = "done" =>
                /\ Len(tasks) = Len(config.addresses)
                /\ \A e \in Tasks : Ended(tasks[e])
          /\ (\E i \in DOMAIN config.addresses : config.addresses[i] = GoodUrl)
                => mainPc # "done")
    /\ (mainPc = "run") ~> (Len(tasks) = Len(config.addresses))
    /\ (mainPc = "run" /\ \A i \in DOMAIN config.addresses :
                              config.addresses[i] = BadUrl)
          ~> (mainPc = "done")

\* the second task was spawned although the first, spawned before it, is
\* still in its loop, and main is still waiting
C13_Witness ==
    /\ mainPc = "run"
    /\ Len(tasks) = 2 /\ Len(config.addresses) = 2
    /\ tasks[1].url = GoodUrl /\ Len(obs[1].hist) = 2 /\ tasks[1].pc = "probe"
    /\ tasks[2].url = BadUrl /\ tasks[2].pc = "done"

(* ---------------- C14: the log lines ---------------- *)
\* C14: the task writes one info line per plain success, one info line per
\* delivered notification and none for a notification that was suppressed or
\* whose delivery failed, and one error line per delivery failure and per
\* URL-parse failure.
C14_InfoPerDelivered ==
    \A e \in Tasks :
        tasks[e].pc # "send" =>
            /\ obs[e].info =
                  Cardinality({i \in DOMAIN obs[e].hist : PlainAt(obs[e].hist, i)})
                  + (obs[e].sends - obs[e].failedSends)
            /\ obs[e].error =
                  obs[e].failedSends
                  + (IF tasks[e].url = BadUrl /\ tasks[e].pc = "done" THEN 1 ELSE 0)

\* C14, amended: the task writes one info line per plain success, one info
\* line per notification it attempts to send (written before the send, so also
\* when the delivery then fails) and none for a suppressed one, and one error
\* line per delivery failure and per URL-parse failure.
C14_InfoPerAttempt ==
    \A e \in Tasks :
        /\ obs[e].info =
              Cardinality({i \in DOMAIN obs[e].hist : PlainAt(obs[e].hist, i)})
              + obs[e].sends
        /\ obs[e].error =
              obs[e].failedSends
              + (IF tasks[e].url = BadUrl /\ tasks[e].pc = "done" THEN 1 ELSE 0)
        /\ obs[e].failedSends <= obs[e].sends

\* a plain success, a suppressed failure, a failure whose send failed and a
\* recovery that was delivered: three info lines, one error line
C14_Witness ==
    \E e \in Tasks :
        /\ obs[e].hist = <<"ok", "status", "err", "ok">>
        /\ obs[e].sent = <<FALSE, FALSE, TRUE, TRUE>>
        /\ obs[e].failedSends = 1
        /\ tasks[e].pc = "sleep"
        /\ obs[e].info = 3 /\ obs[e].error = 1

(* ---------------- C15: iterations are sequential ---------------- *)
\* C15: within one endpoint the order is probe, classify, notify, sleep, next
\* probe: a probe is issued only from a sleep that elapsed (or at loop entry),
\* a sleep starts only after the probe and, when a send was issued, after that
\* send resolved, and when probe N+1 is in flight the N earlier iterations
\* have each slept and no send is pending.
C15_Sequential ==
    /\ [](\A e \in Tasks :
            /\ tasks[e].pc = "probe" =>
                  /\ Len(obs[e].slept) = Len(obs[e].hist)
                  /\ obs[e].sends = CountTrue(obs[e].sent)
            /\ tasks[e].pc = "send" =>
                  /\ Last(obs[e].sent)
                  /\ Len(obs[e].slept) = Len(obs[e].hist) - 1
            /\ tasks[e].pc = "sleep" => Len(obs[e].slept) = Len(obs[e].hist))
    /\ [][\A e \in Tasks :
            tasks'[e].pc # tasks[e].pc =>
                /\ tasks'[e].pc = "probe" => tasks[e].pc \in {"start", "sleep"}
                /\ tasks'[e].pc = "send" =>
                      tasks[e].pc = "probe"
                          /\ Len(obs'[e].hist) = Len(obs[e].hist) + 1
                /\ tasks'[e].pc = "sleep" =>
                      \/ tasks[e].pc = "send"
                      \/ tasks[e].pc = "probe" /\ ~Last(obs'[e].sent)
                /\ tasks[e].pc = "sleep" =>
                      tasks'[e].pc = "probe" /\ obs'[e] = obs[e]]_vars

\* the third probe is in flight: two iterations, each with its send resolved
\* and its sleep elapsed
C15_Witness ==
    \E e \in Tasks :
        /\ tasks[e].pc = "probe"
        /\ Len(obs[e].hist) = 2
        /\ obs[e].sent = <<TRUE, TRUE>> /\ obs[e].sends = 2
        /\ obs[e].failedSends = 1
        /\ Len(obs[e].slept) = 2

(* ---------------- C16: the two kinds of failure ---------------- *)
\* two outcome sequences that fail at the same positions, whatever the kind
\* of each failure
SameShape(h1, h2) ==
    /\ Len(h1) = Len(h2)
    /\ \A i \in DOMAIN h1 : Failing(h1[i]) <=> Failing(h2[i])

\* C16: two runs of check under the same config whose outcomes differ only in
\* the kind of failure at each failing position (non-OK status or transport
\* error) have the same fail_in_row, number_of_fail, number_of_success, send
\* decisions and sleep intervals at every iteration.  The two runs are the
\* two tasks of one process.
C16_FailureKindsAlike ==
    \A e1 \in Tasks : \A e2 \in Tasks :
        SameShape(obs[e1].hist, obs[e2].hist) =>
            /\ tasks[e1].fail_in_row = tasks[e2].fail_in_row
            /\ tasks[e1].number_of_fail = tasks[e2].number_of_fail
            /\ tasks[e1].number_of_success = tasks[e2].number_of_success
            /\ obs[e1].sent = obs[e2].sent
            /\ \A i \in DOMAIN obs[e1].slept \cap DOMAIN obs[e2].slept :
                  obs[e1].slept[i] = obs[e2].slept[i]

\* one run saw a transport error then a status, the other a status then a
\* transport error: same counters, same decisions
C16_Witness ==
    /\ Len(tasks) = 2
    /\ obs[1].hist = <<"err", "status">>
    /\ obs[2].hist = <<"status", "err">>
    /\ tasks[1].fail_in_row = 2 /\ tasks[2].fail_in_row = 2
    /\ obs[1].sent = obs[2].sent
    /\ Len(obs[1].slept) = 2 /\ Len(obs[2].slept) = 2

(* ---------------- C17: what a probe result changes ---------------- *)
\* C17: a Success leaves number_of_fail as it is and sets fail_in_row to 0; a
\* failure leaves number_of_success as it is and adds exactly 1 to
\* fail_in_row; no other step (send, delivery failure, sleep) changes
\* fail_in_row, and the two lifetime counters never decrease.
C17_FrameEffects ==
    [][\A e \in Tasks :
          LET t == tasks[e]
              u == tasks'[e]
          IN  IF Len(obs'[e].hist) = Len(obs[e].hist) + 1
              THEN IF Last(obs'[e].hist) = "ok"
                   THEN /\ u.number_of_fail = t.number_of_fail
                        /\ u.number_of_success = t.number_of_success + 1
                        /\ u.fail_in_row = 0
                   ELSE /\ u.number_of_success = t.number_of_success
                        /\ u.number_of_fail = t.number_of_fail + 1
                        /\ u.fail_in_row = t.fail_in_row + 1
              ELSE /\ obs'[e].hist = obs[e].hist
                   /\ u.fail_in_row = t.fail_in_row
                   /\ u.number_of_fail = t.number_of_fail
                   /\ u.number_of_success = t.number_of_success]_vars

\* successes, then failures, one alert delivered and one not, and the
\* success count is still what it was
C17_Witness ==
    \E e \in Tasks :
        /\ obs[e].hist = <<"ok", "ok", "err", "status">>
        /\ tasks[e].number_of_success = 2
        /\ tasks[e].number_of_fail = 2 /\ tasks[e].fail_in_row = 2
        /\ obs[e].sends = 2 /\ obs[e].failedSends = 1
        /\ tasks[e].pc = "sleep"

(* ---------------- C18: one send per iteration ---------------- *)
\* C18: an iteration issues at most one send: the count of sends grows only
\* in the step that completes a probe and then by 1; when fail_in_row equals
\* notify_failures and is a multiple of rereport it still grows by exactly 1;
\* and a send that resolved, failed or not, is not followed by another send
\* before the next probe.
C18_OneSendPerIteration ==
    [][\A e \in Tasks :
          /\ obs'[e].sends \in {obs[e].sends, obs[e].sends + 1}
          /\ obs'[e].sends = obs[e].sends + 1 =>
                /\ Len(obs'[e].hist) = Len(obs[e].hist) + 1
                /\ tasks'[e].pc = "send"
          /\ (/\ Len(obs'[e].hist) = Len(obs[e].hist) + 1
              /\ Failing(Last(obs'[e].hist))
              /\ tasks'[e].fail_in_row = config.notify_failures
              /\ tasks'[e].fail_in_row % config.rereport = 0) =>
                obs'[e].sends = obs[e].sends + 1
          /\ tasks[e].pc = "send" =>
                /\ tasks'[e].pc \in {"send", "sleep"}
                /\ tasks'[e].pc = "send" => obs'[e] = obs[e]
          /\ obs'[e].failedSends \in {obs[e].failedSends, obs[e].failedSends + 1}
          /\ obs'[e].failedSends # obs[e].failedSends => tasks'[e].pc # "send"]_vars

\* F = 2 and R = 2: the second failure meets both conditions, one send was
\* issued for it, it failed, and the task has gone on to sleep
C18_Witness ==
    \E e \in Tasks :
        /\ config.notify_failures = 2 /\ config.rereport = 2
        /\ Len(obs[e].hist) = 2 /\ tasks[e].fail_in_row = 2
        /\ obs[e].sent = <<FALSE, TRUE>>
        /\ obs[e].sends = 1 /\ obs[e].failedSends = 1
        /\ tasks[e].pc = "sleep"

(* ---------------- C19: one recovery per episode ---------------- *)
\* C19: for R >= 1 every failure episode that a Success ends gets its
\* "Recovered" send, whether or not a failure alert was sent during the
\* episode: the recovery sends issued equal the episodes completed.
C19_RecoveryPerEpisode ==
    \A e \in Tasks :
        LET h == obs[e].hist
        IN  /\ Len(obs[e].sent) = Len(h)
            /\ Cardinality({i \in DOMAIN h : ~Failing(h[i]) /\ obs[e].sent[i]})
                  = Cardinality({i \in DOMAIN h : RecoveryAt(h, i)})
            /\ \A i \in DOMAIN h : RecoveryAt(h, i) => obs[e].sent[i]

\* F = 3, R = 5, two one-failure episodes: no failure alert, two recoveries
C19_Witness ==
    \E e \in Tasks :
        /\ config.notify_failures = 3 /\ config.rereport = 5
        /\ obs[e].hist = <<"err", "ok", "status", "ok">>
        /\ obs[e].sent = <<FALSE, TRUE, FALSE, TRUE>>
        /\ obs[e].sends = 2

(* ---------------- C20: rereport = 0 at runtime ---------------- *)
\* C20: with rereport = 0 a task panics in the first iteration that produces
\* a message while fail_in_row differs from notify_failures (a failure off
\* the threshold, or any recovery), before the send and the sleep of that
\* iteration; an iteration with fail_in_row = notify_failures still sends and
\* sleeps, a plain success sleeps as usual; and the panic of one task changes
\* neither the other tasks nor main, which keeps waiting for all of them.
C20_ZeroRereportAtRuntime ==
    /\ [](\A e \in Tasks :
            /\ (tasks[e].pc = "panicked") <=>
                  /\ Probed(e)
                  /\ ~LastPlain(e)
                  /\ tasks[e].fail_in_row # config.notify_failures
            /\ tasks[e].pc = "panicked" =>
                  /\ ~Last(obs[e].sent)
                  /\ obs[e].sends = CountTrue(obs[e].sent)
                  /\ Len(obs[e].slept) = Len(obs[e].hist) - 1
            /\ (LastFailed(e) /\ tasks[e].fail_in_row = config.notify_failures) =>
                  /\ Last(obs[e].sent)
                  /\ tasks[e].pc \in {"send", "sleep", "probe"}
            /\ LastPlain(e) =>
                  /\ tasks[e].pc \in {"sleep", "probe"}
                  /\ Last(obs[e].slept) = "check_interval_success")
    /\ [](mainPc = "done" => \A e \in Tasks : Ended(tasks[e]))
    /\ [][\A e \in Tasks :
            (tasks'[e].pc = "panicked" /\ tasks[e].pc # "panicked") =>
                /\ tasks[e].pc = "probe"
                /\ mainPc' = mainPc
                /\ \A o \in Tasks \ {e} : tasks'[o] = tasks[o] /\ obs'[o] = obs[o]]_vars

\* F = 1: the first failure of task 1 was sent (1 = F), its second failure
\* panicked; task 2 has since completed a probe and main still waits
C20_Witness ==
    /\ Len(tasks) = 2 /\ mainPc = "run"
    /\ config.rereport = 0 /\ config.notify_failures = 1
    /\ Len(obs[1].hist) = 2 /\ obs[1].sent = <<TRUE, FALSE>>
    /\ tasks[1].pc = "panicked" /\ tasks[1].fail_in_row = 2
    /\ obs[2].hist = <<"ok", "ok">> /\ tasks[2].pc = "sleep"

====
